---- MODULE Spec2Model ----
(***************************************************************************)
(* Model of fetchData.go: a pool of worker goroutines that pull page       *)
(* offsets from a buffered channel, call fetchBatch for each, and append   *)
(* the returned records to allData under a mutex; after wg.Wait the main   *)
(* goroutine writes allData as CSV rows in the order of csvHeaders, each   *)
(* cell produced by formatValue.                                           *)
(*                                                                         *)
(* The three sizes of the program (workers = 5, maxBatches = 300,          *)
(* batchSize = 1000) are scaled down; everything else follows the code.    *)
(* Attribute values are the decoded JSON scalars: nil, float64 (modelled   *)
(* by the integers), string and bool.                                      *)
(***************************************************************************)
EXTENDS Integers, Sequences, FiniteSets, Bags, TLC

\* ------------------------------------------------------------------ sizes
workers == 2        \* pool size and channel capacity (5 in the source)
maxBatches == 2     \* number of offsets fed (300 in the source)
batchSize == 2      \* page size (1000 in the source)
MaxWriteFails == 1  \* at most this many row writes fail in one run

\* --------------------------------------------------------- configuration
csvHeaders ==
    << "House_Nr", "Dir", "Street_Name", "St_Type", "Post_Dir", "Zip", "L_S", "CD",
       "Neighborhood", "Full_Parcel_ID", "Census_Tract", "Action_Filed", "Case_",
       "Case_Style", "Sale_Date", "Sale_Price", "Purchaser", "ObjectId" >>

\* ------------------------------------------------------- attribute values
\* A float64 that holds an integer is kept as sign * (1000 * k + r) with
\* 0 <= r < 1000: epoch milliseconds exceed the 32-bit integers of TLC.
Nil == [t |-> "nil"]
Num(sign, k, r) == [t |-> "num", sign |-> sign, k |-> k, r |-> r]
Str(s) == [t |-> "str", v |-> s]
Bool(b) == [t |-> "bool", v |-> b]

IsZero(value) == value.k = 0 /\ value.r = 0

\* record[key] of a Go map: the zero value (nil interface) for a missing key
MapGet(record, key) ==
    IF key \in DOMAIN record THEN record[key] ELSE Nil

\* --------------------------------------------------------- formatValue
Pad2(n) == IF n < 10 THEN "0" \o ToString(n) ELSE ToString(n)

Pad3(n) == IF n < 100 THEN "0" \o Pad2(n) ELSE ToString(n)

Pad4(n) == IF n < 1000 THEN "0" \o Pad3(n) ELSE ToString(n)

\* the quotient rounded to the nearest second
MsToSec_Rounded(timestamp) ==
    timestamp.sign * (timestamp.k + (IF timestamp.r >= 500 THEN 1 ELSE 0))

\* int64(timestamp / 1000): the quotient, truncated toward zero
MsToSec(timestamp) == timestamp.sign * timestamp.k

\* floor division, written out so that it does not depend on the sign of a
FloorDiv(a, b) == IF a >= 0 THEN a \div b ELSE -(((-a) + b - 1) \div b)

\* time.Unix(sec, 0).UTC().Format("2006/01/02 15:04:05+00"): the proleptic
\* Gregorian civil date of the day number, then the time of day
FormatUnixUTC(sec) ==
    LET days == FloorDiv(sec, 86400)
        rem  == sec - days * 86400
        z    == days + 719468
        era  == FloorDiv(z, 146097)
        doe  == z - era * 146097
        yoe  == (doe - doe \div 1460 + doe \div 36524 - doe \div 146096) \div 365
        doy  == doe - (365 * yoe + yoe \div 4 - yoe \div 100)
        mp   == (5 * doy + 2) \div 153
        d    == doy - (153 * mp + 2) \div 5 + 1
        m    == IF mp < 10 THEN mp + 3 ELSE mp - 9
        y    == yoe + era * 400 + (IF m <= 2 THEN 1 ELSE 0)
    IN  Pad4(y) \o "/" \o Pad2(m) \o "/" \o Pad2(d) \o " "
        \o Pad2(rem \div 3600) \o ":" \o Pad2((rem % 3600) \div 60) \o ":"
        \o Pad2(rem % 60) \o "+00"

RECURSIVE NumDigits(_)
NumDigits(n) == IF n < 10 THEN 1 ELSE 1 + NumDigits(n \div 10)

RECURSIVE StripZeros(_)
StripZeros(n) == IF n # 0 /\ n % 10 = 0 THEN StripZeros(n \div 10) ELSE n

\* the digits of n after the first one, as text
RECURSIVE TailDigits(_)
TailDigits(n) ==
    IF n < 10 THEN "" ELSE TailDigits(n \div 10) \o ToString(n % 10)

RECURSIVE FirstDigit(_)
FirstDigit(n) == IF n < 10 THEN n ELSE FirstDigit(n \div 10)

\* the three digits of r without the trailing zeros (r > 0)
StripPad3(r) ==
    IF r % 100 = 0 THEN ToString(r \div 100)
    ELSE IF r % 10 = 0 THEN Pad2(r \div 10)
    ELSE Pad3(r)

\* fmt's %v of a float64 holding an integer (the 'g' format with the
\* shortest precision): plain digits below 1e6 in magnitude, else d.ddde+XX
SprintFloat(value) ==
    LET k    == value.k
        r    == value.r
        sign == IF value.sign < 0 THEN "-" ELSE ""
        frac == IF r = 0 THEN TailDigits(StripZeros(k))
                ELSE TailDigits(k) \o StripPad3(r)
    IN  IF k = 0 THEN sign \o ToString(r)
        ELSE IF k < 1000 THEN sign \o ToString(k) \o Pad3(r)
        ELSE sign \o ToString(FirstDigit(k)) \o (IF frac = "" THEN "" ELSE "." \o frac)
             \o "e+" \o Pad2(NumDigits(k) + 2)

\* fmt.Sprintf("%v", value)
Sprint(value) ==
    CASE value.t = "nil"  -> "<nil>"
      [] value.t = "num"  -> SprintFloat(value)
      [] value.t = "str"  -> value.v
      [] value.t = "bool" -> IF value.v THEN "true" ELSE "false"

\* formatValue without the test for the "<nil>" text
formatValue_KeepsNilMarker(key, value) ==
    IF value = Nil THEN ""
    ELSE IF (key = "Action_Filed" \/ key = "Sale_Date") /\ value.t = "num"
    THEN IF IsZero(value) THEN "" ELSE FormatUnixUTC(MsToSec(value))
    ELSE Sprint(value)

formatValue(key, value) ==
    IF value = Nil THEN ""
    ELSE IF (key = "Action_Filed" \/ key = "Sale_Date") /\ value.t = "num"
    THEN IF IsZero(value) THEN "" ELSE FormatUnixUTC(MsToSec(value))
    ELSE LET s == Sprint(value) IN IF s = "<nil>" THEN "" ELSE s

\* a row that holds a cell only for the columns the record has
Row_ByRecordKeys(record) ==
    LET present == SelectSeq(csvHeaders, LAMBDA c : c \in DOMAIN record)
    IN  [c \in 1..Len(present) |-> formatValue(present[c], record[present[c]])]

\* the row built for one record by the inner loop of the write phase
Row(record) ==
    [c \in 1..Len(csvHeaders) |-> formatValue(csvHeaders[c], MapGet(record, csvHeaders[c]))]

\* ------------------------------------------------------- the remote service
\* The service is a mock with fixed content: the g-th record of the remote
\* collection is one of a few shapes of attribute mappings (keys missing,
\* keys outside the schema, null values, dates, large numbers), with its
\* number as ObjectId. What varies per request is how many records the
\* page holds and whether the request fails.
Shape(g) ==
    CASE g % 5 = 0 -> [House_Nr |-> Num(1, 0, 123), Street_Name |-> Str("MAIN"),
                       Zip |-> Str("40202"), Action_Filed |-> Num(1, 1615766400, 0),
                       Sale_Date |-> Num(1, 0, 0), Purchaser |-> Nil,
                       ObjectId |-> Num(1, 0, g + 1)]
      [] g % 5 = 1 -> [Shape__Area |-> Num(1, 0, 5), Neighborhood |-> Str("<nil>"),
                       Sale_Date |-> Str("n/a"), Sale_Price |-> Num(1, 1250, 0),
                       ObjectId |-> Num(1, 0, g + 1)]
      [] g % 5 = 2 -> [ObjectId |-> Num(1, 0, g + 1)]
      [] g % 5 = 3 -> [Action_Filed |-> Num(1, 1615766400, 999),
                       Sale_Date |-> Num(-1, 1, 500), CD |-> Bool(TRUE),
                       Dir |-> Str("W"), GlobalID |-> Str("x"),
                       ObjectId |-> Num(1, 0, g + 1)]
      [] OTHER     -> [House_Nr |-> Nil, Sale_Price |-> Num(1, 99, 0),
                       Case_Style |-> Str("A, B"), ObjectId |-> Num(1, 0, g + 1)]

\* the page of n records that starts at offset
Page(offset, n) == [j \in 1..n |-> Shape(offset + j - 1)]

\* --------------------------------------------------------------- fetchBatch
\* A response is a transport error, or a status with a body that either
\* does not decode or decodes to a list of features.
NetError == [kind |-> "neterr"]
Http(status, decodes, features) ==
    [kind |-> "http", status |-> status, decodes |-> decodes, features |-> features]

Feature(attributes) == [attributes |-> attributes, geometry |-> "discarded"]

\* what fetchBatch returns
Returns(records, err) == [records |-> records, err |-> err]

\* fetchBatch(offset, client) for the response the service gives: the
\* attributes of every feature of the list, in order
fetchBatch(offset, resp) ==
    IF resp.kind = "neterr" THEN Returns(<< >>, "client.Do")
    ELSE IF resp.status # 200 THEN Returns(<< >>, "status code " \o ToString(resp.status))
    ELSE IF ~resp.decodes THEN Returns(<< >>, "decode")
    ELSE Returns([k \in 1..Len(resp.features) |-> resp.features[k].attributes], "nil")

\* ------------------------------------------------------------------ state
VARIABLES
    nw,         \* the pool size of this run, 1..workers (also the channel capacity)
    mainPc,     \* position of the main goroutine
    spawned,    \* number of worker goroutines started so far
    i,          \* loop variable of the feed loop
    offsets,    \* buffer of the offsets channel, oldest first
    closed,     \* whether close(offsets) has run
    wg,         \* counter of the WaitGroup
    wpc,        \* position of each worker goroutine
    woffset,    \* the offset a worker is working on (-1: none)
    wrecords,   \* the records a worker got from fetchBatch
    mu,         \* holder of the mutex (0: unlocked)
    allData,    \* the accumulated records
    requested,  \* bag of the offsets passed to fetchBatch so far
    pages,      \* what fetchBatch returned, per offset: an error, or n records
    errLog,     \* bag of the offsets of the "Error fetching offset" lines
    stdout,     \* the lines printed by the main goroutine
    dirCreated, \* os.MkdirAll succeeded
    fileCreated,\* os.Create succeeded
    file,       \* rows accepted by the csv writer, header included
    calls,      \* outcome (TRUE: written) of writer.Write for each record so far
    probe       \* one call of fetchBatch or formatValue taken alone (SpecFn)

vars == << nw, mainPc, spawned, i, offsets, closed, wg, wpc, woffset, wrecords, mu,
           allData, requested, pages, errLog, stdout, dirCreated, fileCreated,
           file, calls, probe >>

mainVars == << mainPc, spawned, i, stdout, dirCreated, fileCreated, file, calls >>
workerVars == << wpc, woffset, wrecords, mu, allData, requested, pages, errLog >>
writeVars == << dirCreated, fileCreated, file, calls >>

Workers == 1..workers

\* the state of main before the first worker is started
MainInit ==
    /\ nw \in 1..workers
    /\ mainPc = "spawn"
    /\ spawned = 0
    /\ i = 0
    /\ offsets = << >>
    /\ closed = FALSE
    /\ wg = 0
    /\ wpc = [w \in Workers |-> "idle"]
    /\ woffset = [w \in Workers |-> -1]
    /\ wrecords = [w \in Workers |-> << >>]
    /\ mu = 0
    /\ allData = << >>
    /\ requested = EmptyBag
    /\ pages = << >>
    /\ errLog = EmptyBag
    /\ stdout = << "Starting data fetch..." >>
    /\ dirCreated = FALSE
    /\ fileCreated = FALSE
    /\ file = << >>
    /\ calls = << >>

NoProbe == [op |-> "none"]

Init == MainInit /\ probe = NoProbe

\* ------------------------------------------------------- worker goroutines
\* for offset := range offsets: take the oldest buffered offset and call
\* fetchBatch with it
Recv(w) ==
    /\ wpc[w] = "recv"
    /\ offsets # << >>
    /\ woffset' = [woffset EXCEPT ![w] = Head(offsets)]
    /\ offsets' = Tail(offsets)
    /\ requested' = requested (+) SetToBag({Head(offsets)})
    /\ wpc' = [wpc EXCEPT ![w] = "fetch"]
    /\ UNCHANGED << probe, nw, closed, wg, wrecords, mu, allData, pages, errLog >>
    /\ UNCHANGED mainVars

\* a goroutine that returns without wg.Done()
DoneCount_Missing(n) == n

\* the WaitGroup counter after the deferred wg.Done()
DoneCount(n) == n - 1

\* the range loop ends on a closed and drained channel; the deferred wg.Done
LoopExit(w) ==
    /\ wpc[w] = "recv"
    /\ offsets = << >>
    /\ closed
    /\ wpc' = [wpc EXCEPT ![w] = "done"]
    /\ wg' = DoneCount(wg)
    /\ UNCHANGED << probe, nw, offsets, closed, woffset, wrecords, mu, allData, requested,
                    pages, errLog >>
    /\ UNCHANGED mainVars

\* the error branch returns from the goroutine instead of continuing
AfterError_Return == "done"

\* where the worker goes after the error branch: continue
AfterError == "recv"

\* fetchBatch returns an error (client.Do, status code or Decode): the
\* worker prints the error line and continues with the next offset
FetchError(w) ==
    /\ wpc[w] = "fetch"
    /\ pages' = (woffset[w] :> [err |-> TRUE, n |-> 0]) @@ pages
    /\ errLog' = errLog (+) SetToBag({woffset[w]})
    /\ wrecords' = [wrecords EXCEPT ![w] = << >>]
    /\ wpc' = [wpc EXCEPT ![w] = AfterError]
    /\ UNCHANGED << probe, nw, offsets, closed, wg, woffset, mu, allData, requested >>
    /\ UNCHANGED mainVars

\* an empty page ends the worker
AfterFetch_StopOnEmpty(records) == IF Len(records) = 0 THEN "done" ELSE "lock"

\* where the worker goes with the records of a successful fetchBatch
AfterFetch(records) == IF Len(records) = 0 THEN "recv" ELSE "lock"

\* fetchBatch returns the records of the page; an empty page continues.
\* The service of this specification honours resultRecordCount: the page
\* holds 0..batchSize records.
FetchOk(w) ==
    /\ wpc[w] = "fetch"
    /\ \E n \in 0..batchSize :
         LET records == Page(woffset[w], n) IN
         /\ pages' = (woffset[w] :> [err |-> FALSE, n |-> n]) @@ pages
         /\ wrecords' = [wrecords EXCEPT ![w] = records]
         /\ wpc' = [wpc EXCEPT ![w] = AfterFetch(records)]
    /\ UNCHANGED << probe, nw, offsets, closed, wg, woffset, mu, allData, requested, errLog >>
    /\ UNCHANGED mainVars

\* a lock that excludes nobody
CanLock_NoExclusion(w) == TRUE

\* whether mu.Lock() can return for w
CanLock(w) == mu = 0

Lock(w) ==
    /\ wpc[w] = "lock"
    /\ CanLock(w)
    /\ mu' = w
    /\ wpc' = [wpc EXCEPT ![w] = "append"]
    /\ UNCHANGED << probe, nw, offsets, closed, wg, woffset, wrecords, allData, requested,
                    pages, errLog >>
    /\ UNCHANGED mainVars

\* allData = records: the page replaces what was accumulated
Appended_Overwrite(data, records) == records

\* append(records, allData...): the page goes in front
Appended_Prepend(data, records) == records \o data

\* the first record of the page slips in before the last record accumulated
Appended_Interleaved(data, records) ==
    IF data = << >> \/ records = << >> THEN data \o records
    ELSE SubSeq(data, 1, Len(data) - 1) \o << records[1] >>
            \o << data[Len(data)] >> \o Tail(records)

\* append(allData, records...)
Appended(data, records) == data \o records

AppendRecords(w) ==
    /\ wpc[w] = "append"
    /\ allData' = Appended(allData, wrecords[w])
    /\ wpc' = [wpc EXCEPT ![w] = "unlock"]
    /\ UNCHANGED << probe, nw, offsets, closed, wg, woffset, wrecords, mu, requested,
                    pages, errLog >>
    /\ UNCHANGED mainVars

\* the goroutine goes back to the channel with the mutex still locked
Released_StillHeld(w) == w

\* the holder of the mutex after mu.Unlock() by w
Released(w) == 0

Unlock(w) ==
    /\ wpc[w] = "unlock"
    /\ mu' = Released(w)
    /\ wpc' = [wpc EXCEPT ![w] = "recv"]
    /\ UNCHANGED << probe, nw, offsets, closed, wg, woffset, wrecords, allData, requested,
                    pages, errLog >>
    /\ UNCHANGED mainVars

\* --------------------------------------------------------- main goroutine
workerVarsAll == << woffset, wrecords, mu, allData, requested, pages, errLog >>

\* wg.Add(1); go func() {...}()
Spawn ==
    /\ mainPc = "spawn"
    /\ spawned < nw
    /\ wg' = wg + 1
    /\ wpc' = [wpc EXCEPT ![spawned + 1] = "recv"]
    /\ spawned' = spawned + 1
    /\ mainPc' = IF spawned + 1 = nw THEN "feed" ELSE "spawn"
    /\ UNCHANGED << probe, nw, i, offsets, closed, stdout >>
    /\ UNCHANGED workerVarsAll
    /\ UNCHANGED writeVars

\* i <= maxBatches
FeedCount_OffByOne == maxBatches + 1

\* number of offsets the feed loop sends
FeedCount == maxBatches

\* a channel that buffers every offset
Capacity_Unbounded == maxBatches

\* make(chan int, workers): the capacity of the channel
Capacity == nw

\* offsets <- i * batchSize: blocks while the buffer is full
Feed ==
    /\ mainPc = "feed"
    /\ i < FeedCount
    /\ Len(offsets) < Capacity
    /\ offsets' = Append(offsets, i * batchSize)
    /\ i' = i + 1
    /\ mainPc' = IF i + 1 < FeedCount THEN "feed" ELSE "close"
    /\ UNCHANGED << probe, nw, spawned, closed, wg, wpc, stdout >>
    /\ UNCHANGED workerVarsAll
    /\ UNCHANGED writeVars

Close ==
    /\ mainPc = "close"
    /\ closed' = TRUE
    /\ mainPc' = "wait"
    /\ UNCHANGED << probe, nw, spawned, i, offsets, wg, wpc, stdout >>
    /\ UNCHANGED workerVarsAll
    /\ UNCHANGED writeVars

\* no wait for the workers
WaitDone_NoWait == TRUE

\* the wait ends when the first worker has returned
WaitDone_FirstWorker == wg < spawned

\* whether wg.Wait() can return
WaitDone == wg = 0

Wait ==
    /\ mainPc = "wait"
    /\ WaitDone
    /\ mainPc' = "report"
    /\ UNCHANGED << probe, nw, spawned, i, offsets, closed, wg, wpc, stdout >>
    /\ UNCHANGED workerVarsAll
    /\ UNCHANGED writeVars

\* the write phase without the len(allData) > 0 test
AfterReport_AlwaysSave(data) == "mkdir"

\* the branch taken after the count is printed
AfterReport(data) == IF Len(data) > 0 THEN "mkdir" ELSE "nodata"

\* fmt.Printf("Fetched %d total records.\n", len(allData))
Report ==
    /\ mainPc = "report"
    /\ stdout' = Append(stdout, "Fetched " \o ToString(Len(allData)) \o " total records.")
    /\ mainPc' = AfterReport(allData)
    /\ UNCHANGED << probe, nw, spawned, i, offsets, closed, wg, wpc >>
    /\ UNCHANGED workerVarsAll
    /\ UNCHANGED writeVars

NoData ==
    /\ mainPc = "nodata"
    /\ stdout' = Append(stdout, "No data was retrieved from the API.")
    /\ mainPc' = "done"
    /\ UNCHANGED << probe, nw, spawned, i, offsets, closed, wg, wpc >>
    /\ UNCHANGED workerVarsAll
    /\ UNCHANGED writeVars

MkdirOk ==
    /\ mainPc = "mkdir"
    /\ dirCreated' = TRUE
    /\ mainPc' = "create"
    /\ UNCHANGED << probe, nw, spawned, i, offsets, closed, wg, wpc, stdout, fileCreated,
                    file, calls >>
    /\ UNCHANGED workerVarsAll

\* the failure is printed and the write phase goes on with its next step
AfterSetupFail_LogAndContinue(pc) ==
    CASE pc = "mkdir" -> "create" [] pc = "create" -> "header" [] OTHER -> "rows"

\* where main goes when a setup step of the write phase fails: panic(err)
AfterSetupFail(pc) == "panic"

\* os.MkdirAll, os.Create or the header write fails: panic(err)
SetupFail ==
    /\ mainPc \in {"mkdir", "create", "header"}
    /\ mainPc' = AfterSetupFail(mainPc)
    /\ UNCHANGED << probe, nw, spawned, i, offsets, closed, wg, wpc, stdout >>
    /\ UNCHANGED workerVarsAll
    /\ UNCHANGED writeVars

CreateOk ==
    /\ mainPc = "create"
    /\ fileCreated' = TRUE
    /\ file' = << >>
    /\ mainPc' = "header"
    /\ UNCHANGED << probe, nw, spawned, i, offsets, closed, wg, wpc, stdout, dirCreated, calls >>
    /\ UNCHANGED workerVarsAll

\* the header taken from the keys of the first record
HeaderRow_FromFirstRecord ==
    SelectSeq(csvHeaders, LAMBDA c : c \in DOMAIN allData[1])

\* the row passed to the header write
HeaderRow == csvHeaders

WriteHeader ==
    /\ mainPc = "header"
    /\ file' = Append(file, HeaderRow)
    /\ mainPc' = "rows"
    /\ UNCHANGED << probe, nw, spawned, i, offsets, closed, wg, wpc, stdout, dirCreated,
                    fileCreated, calls >>
    /\ UNCHANGED workerVarsAll

\* the row loop running from the last record to the first
NextRecord_Reversed == allData[Len(allData) - Len(calls)]

\* the record of the next iteration of the row loop
NextRecord == allData[Len(calls) + 1]

WriteRowOk ==
    /\ mainPc = "rows"
    /\ Len(calls) < Len(allData)
    /\ file' = Append(file, Row(NextRecord))
    /\ calls' = Append(calls, TRUE)
    /\ UNCHANGED << probe, nw, mainPc, spawned, i, offsets, closed, wg, wpc, stdout,
                    dirCreated, fileCreated >>
    /\ UNCHANGED workerVarsAll

\* writer.Write(row) returns an error: the line is printed and the loop goes on
WriteRowFail ==
    /\ mainPc = "rows"
    /\ Len(calls) < Len(allData)
    /\ Len(SelectSeq(calls, LAMBDA ok : ~ok)) < MaxWriteFails
    /\ calls' = Append(calls, FALSE)
    /\ stdout' = Append(stdout, "Error writing record to CSV")
    /\ UNCHANGED << probe, nw, mainPc, spawned, i, offsets, closed, wg, wpc, dirCreated,
                    fileCreated, file >>
    /\ UNCHANGED workerVarsAll

\* the line of the success summary
SavedLine == "Data saved to data/Louisville_Metro_KY_-_Property_Foreclosures.csv"

Saved ==
    /\ mainPc = "rows"
    /\ Len(calls) = Len(allData)
    /\ stdout' = Append(stdout, SavedLine)
    /\ mainPc' = "done"
    /\ UNCHANGED << probe, nw, spawned, i, offsets, closed, wg, wpc >>
    /\ UNCHANGED workerVarsAll
    /\ UNCHANGED writeVars

\* ------------------------------------------------------------ specification
WorkerStep(w) ==
    \/ Recv(w)
    \/ LoopExit(w)
    \/ FetchError(w)
    \/ FetchOk(w)
    \/ Lock(w)
    \/ AppendRecords(w)
    \/ Unlock(w)

Next ==
    \/ Spawn
    \/ Feed
    \/ Close
    \/ Wait
    \/ Report
    \/ NoData
    \/ MkdirOk
    \/ CreateOk
    \/ SetupFail
    \/ WriteHeader
    \/ WriteRowOk
    \/ WriteRowFail
    \/ Saved
    \/ \E w \in Workers : WorkerStep(w)

Spec == Init /\ [][Next]_vars

\* The fetch phase alone: the steps of main up to the return of wg.Wait and
\* the steps of the workers. The write phase only starts after wg.Wait and
\* is a loop over allData, so the runs of FetchSpec are the runs of Spec
\* cut at the barrier.
FetchMainStep == Spawn \/ Feed \/ Close \/ Wait

FetchNext ==
    \/ Spawn
    \/ Feed
    \/ Close
    \/ Wait
    \/ \E w \in Workers : WorkerStep(w)

\* Every goroutine that can run does run, and every call of fetchBatch
\* returns (FetchOk or FetchError).
FairFetchSpec ==
    /\ Init /\ [][FetchNext]_vars
    /\ WF_vars(FetchMainStep)
    /\ \A w \in Workers : WF_vars(WorkerStep(w))

\* ------------------------------------------------- a call that never returns
\* http.Client has no timeout: client.Do may never return, and the worker
\* stays inside fetchBatch for good.
Hang(w) ==
    /\ wpc[w] = "fetch"
    /\ wpc' = [wpc EXCEPT ![w] = "hung"]
    /\ UNCHANGED << probe, nw, offsets, closed, wg, woffset, wrecords, mu, allData,
                    requested, pages, errLog >>
    /\ UNCHANGED mainVars

HangNext ==
    \/ FetchNext
    \/ \E w \in Workers : Hang(w)

\* the fetch phase with calls that may hang
HangSpec == Init /\ [][HangNext]_vars

\* Every goroutine that can run does run; a call of fetchBatch returns or
\* hangs.
FairHangSpec ==
    /\ HangSpec
    /\ WF_vars(FetchMainStep)
    /\ \A w \in Workers : WF_vars(WorkerStep(w))

\* the steps of main after wg.Wait
WriteStep ==
    \/ Report \/ NoData \/ MkdirOk \/ CreateOk \/ SetupFail \/ WriteHeader
    \/ WriteRowOk \/ WriteRowFail \/ Saved

\* ---------------------------------------------- the two functions, alone
\* SpecFn takes one call of fetchBatch or of formatValue with inputs drawn
\* from bounded sets; the goroutines of main stay where they start.
RECURSIVE SeqsUpTo(_, _)
SeqsUpTo(S, n) ==
    IF n = 0 THEN {<< >>}
    ELSE LET shorter == SeqsUpTo(S, n - 1)
         IN  shorter \cup {Append(q, x) : q \in {t \in shorter : Len(t) = n - 1}, x \in S}

\* feature lists of up to batchSize + 1 entries: the service is not bound
\* to honour resultRecordCount
FeatureLists ==
    SeqsUpTo({Feature(Shape(0)), Feature(Shape(1)), Feature(Shape(2))}, batchSize + 1)

Responses ==
    {NetError, Http(500, TRUE, << >>), Http(404, TRUE, << Feature(Shape(0)) >>),
     Http(200, FALSE, << >>)}
      \cup {Http(200, TRUE, f) : f \in FeatureLists}

ProbeOffsets == {b * batchSize : b \in 0..(maxBatches - 1)}

ProbeKeys == {csvHeaders[c] : c \in 1..Len(csvHeaders)} \cup {"GlobalID"}

ProbeValues ==
    {Nil, Bool(TRUE), Bool(FALSE),
     Str(""), Str("<nil>"), Str("n/a"), Str("MAIN"), Str("1615766400000"),
     Num(1, 0, 0), Num(-1, 0, 0), Num(1, 0, 5), Num(1, 0, 999), Num(1, 1, 0),
     Num(-1, 0, 999), Num(-1, 1, 500), Num(1, 99, 0), Num(1, 1250, 0),
     Num(1, 951782400, 0), Num(1, 1615766400, 0), Num(1, 1615766400, 999),
     Num(1, 1615766401, 0), Num(1, 1709251199, 500)}

InitFn ==
    /\ MainInit
    /\ \/ \E o \in ProbeOffsets, r \in Responses :
            probe = [op |-> "fetchBatch", st |-> "call", offset |-> o, resp |-> r]
       \/ \E k \in ProbeKeys, v \in ProbeValues :
            probe = [op |-> "formatValue", st |-> "call", key |-> k, value |-> v]

mainAll == << nw, mainPc, spawned, i, offsets, closed, wg, wpc, stdout >>

CallFetchBatch ==
    /\ probe.op = "fetchBatch" /\ probe.st = "call"
    /\ probe' = [op |-> "fetchBatch", st |-> "ret", offset |-> probe.offset,
                 resp |-> probe.resp, out |-> fetchBatch(probe.offset, probe.resp)]
    /\ UNCHANGED << mainAll, workerVarsAll, writeVars >>

CallFormatValue ==
    /\ probe.op = "formatValue" /\ probe.st = "call"
    /\ probe' = [op |-> "formatValue", st |-> "ret", key |-> probe.key,
                 value |-> probe.value, out |-> formatValue(probe.key, probe.value)]
    /\ UNCHANGED << mainAll, workerVarsAll, writeVars >>

NextFn == CallFetchBatch \/ CallFormatValue

SpecFn == InitFn /\ [][NextFn]_vars

\* ------------------------------------------------------------ vocabulary
\* the fetch phase is over: wg.Wait() has returned
FetchDone == mainPc \notin {"spawn", "feed", "close", "wait"}

Pool == 1..nw

AllOffsets == {b * batchSize : b \in 0..(maxBatches - 1)}

NoFetchFailed == \A o \in DOMAIN pages : ~pages[o].err

NonEmptyPages == {o \in DOMAIN pages : pages[o].n > 0}

RECURSIVE SumPages(_)
SumPages(S) ==
    IF S = {} THEN 0
    ELSE LET o == CHOOSE x \in S : TRUE IN pages[o].n + SumPages(S \ {o})

\* the records the service returned for offset o
PageRecords(o) == {Shape(o + j - 1) : j \in 1..pages[o].n}

\* every record the page at offset o can hold
PageSlots(o) == {Shape(o + j - 1) : j \in 1..batchSize}

Occurrences(record) == Cardinality({k \in 1..Len(allData) : allData[k] = record})

\* the data rows of the output file
DataRows == IF file = << >> THEN << >> ELSE Tail(file)

\* the indices of the records whose row write succeeded, ascending
RECURSIVE Written(_)
Written(k) ==
    IF k = 0 THEN << >>
    ELSE IF calls[k] THEN Append(Written(k - 1), k) ELSE Written(k - 1)

WrittenIdx == Written(Len(calls))

NoWriteFailed == \A k \in 1..Len(calls) : calls[k]

\* --------------------------------------------------------------- claims

\* C1 as stated: with no failed fetch, at the end of the fetch phase allData
\* holds exactly (number of non-empty pages) * batchSize records.
C1_Original ==
    (FetchDone /\ NoFetchFailed)
        => Len(allData) = Cardinality(NonEmptyPages) * batchSize

\* C1, amended: with no failed fetch, at the end of the fetch phase allData
\* holds every record of every returned page exactly once and nothing else,
\* for every pool size and interleaving: its length is the sum of the page
\* sizes, which is (number of non-empty pages) * batchSize when every
\* non-empty page is full.
C1_NoLostNoDuplicate ==
    (FetchDone /\ NoFetchFailed)
        => /\ Len(allData) = SumPages(DOMAIN pages)
           /\ \A o \in DOMAIN pages : \A r \in PageRecords(o) : Occurrences(r) = 1
           /\ (\A o \in NonEmptyPages : pages[o].n = batchSize)
                => Len(allData) = Cardinality(NonEmptyPages) * batchSize

\* C1 witness: two workers, two full pages merged, no fetch failed
C1_Witness ==
    /\ FetchDone /\ NoFetchFailed /\ nw >= 2
    /\ Cardinality(NonEmptyPages) >= 2
    /\ \A o \in NonEmptyPages : pages[o].n = batchSize
    /\ Len(allData) = 2 * batchSize

\* C2: every offset passed to fetchBatch is b * batchSize with
\* 0 <= b < maxBatches, no offset is passed twice, so at most maxBatches
\* requests are issued; an offset in the channel or in a worker's hands has
\* one owner.
C2_SafetyCeiling ==
    /\ BagToSet(requested) \subseteq AllOffsets
    /\ \A o \in BagToSet(requested) : CopiesIn(o, requested) = 1
    /\ BagCardinality(requested) <= maxBatches
    /\ \A k \in 1..Len(offsets) : offsets[k] \in AllOffsets \ BagToSet(requested)
    /\ \A w1, w2 \in Workers :
         (w1 # w2 /\ woffset[w1] # -1 /\ wpc[w1] # "recv" /\ wpc[w2] # "recv"
            /\ wpc[w1] # "done" /\ wpc[w2] # "done")
           => woffset[w1] # woffset[w2]

\* C2 witness: all maxBatches offsets have been requested
C2_Witness == BagCardinality(requested) = maxBatches /\ FetchDone

\* C3: once the count is reported the channel is closed and empty, every
\* worker has returned, and allData never changes again.
C3_WriterAfterQuiescence ==
    /\ [](FetchDone => /\ closed /\ offsets = << >>
                       /\ \A w \in Pool : wpc[w] = "done"
                       /\ mu = 0)
    /\ [][FetchDone => allData' = allData]_vars

\* C3 witness: rows are being written after a pool of two has merged pages
C3_Witness == mainPc = "rows" /\ Len(file) >= 2 /\ nw >= 2 /\ Len(allData) > batchSize

\* C4: at most one worker is between Lock and Unlock, that worker is the
\* holder of mu, and allData only changes in a step of the holder.
C4_MutualExclusion ==
    /\ [](/\ Cardinality({w \in Workers : wpc[w] \in {"append", "unlock"}}) <= 1
          /\ \A w \in Workers : (wpc[w] \in {"append", "unlock"}) <=> (mu = w))
    /\ [][allData' # allData
            => /\ mu # 0 /\ wpc[mu] = "append" /\ mu' = mu
               /\ allData' = allData \o wrecords[mu]]_vars

\* C4 witness: one worker holds the lock while another waits for it
C4_Witness ==
    \E w1, w2 \in Workers : wpc[w1] = "append" /\ mu = w1 /\ wpc[w2] = "lock"

\* C5: a failed fetch leaves allData alone and sends the worker back to the
\* channel; no record of a failed page is ever in allData, the offset is
\* requested once, and the fetch phase still requests every offset.
C5_FailureDropsPage ==
    /\ [](\A o \in DOMAIN pages :
            pages[o].err => /\ \A r \in PageSlots(o) : Occurrences(r) = 0
                            /\ CopiesIn(o, requested) = 1)
    /\ []((FetchDone /\ ~NoFetchFailed) => BagToSet(requested) = AllOffsets)
    /\ [][\A w \in Workers :
            (wpc[w] = "fetch" /\ woffset[w] \notin DOMAIN pages
               /\ woffset[w] \in DOMAIN pages' /\ pages'[woffset[w]].err)
              => /\ wpc'[w] = "recv" /\ allData' = allData
                 /\ requested' = requested /\ mainPc' = mainPc
                 /\ closed' = closed /\ offsets' = offsets]_vars

\* C5 witness: the only worker fails on the first offset and then merges the
\* page of the second one
C5_Witness ==
    /\ nw = 1 /\ FetchDone
    /\ 0 \in DOMAIN pages /\ pages[0].err
    /\ batchSize \in DOMAIN pages /\ pages[batchSize].n > 0
    /\ Len(allData) = pages[batchSize].n

\* C6: an empty page leaves the worker in its loop and the channel open;
\* when the fetch phase completes every offset has been requested and the
\* records of every non-empty page are in allData, also after an empty one.
C6_EmptyPageNoStop ==
    /\ [](FetchDone => /\ BagToSet(requested) = AllOffsets
                       /\ DOMAIN pages = AllOffsets
                       /\ \A o \in NonEmptyPages :
                            \A r \in PageRecords(o) : Occurrences(r) = 1)
    /\ [][\A w \in Workers :
            (wpc[w] = "fetch" /\ woffset[w] \notin DOMAIN pages
               /\ woffset[w] \in DOMAIN pages' /\ ~pages'[woffset[w]].err
               /\ pages'[woffset[w]].n = 0)
              => /\ wpc'[w] = "recv" /\ closed' = closed
                 /\ offsets' = offsets /\ mainPc' = mainPc]_vars

\* C6 witness: the first page was empty, the last one is in allData
C6_Witness ==
    /\ FetchDone
    /\ 0 \in DOMAIN pages /\ ~pages[0].err /\ pages[0].n = 0
    /\ LET last == (maxBatches - 1) * batchSize IN
         /\ last \in NonEmptyPages
         /\ \A r \in PageRecords(last) : Occurrences(r) = 1

\* C7 as stated: the k-th data row of the file is the row of the k-th
\* record of allData, and a finished file has one data row per record.
C7_Original ==
    /\ \A k \in 1..Len(DataRows) : k <= Len(allData) /\ DataRows[k] = Row(allData[k])
    /\ (mainPc = "done" /\ file # << >>) => Len(DataRows) = Len(allData)

\* C7, amended: the row loop visits every record of allData once, in order;
\* the data rows of the file are the rows of the records whose write
\* succeeded, in the order of allData (a record whose write fails is
\* skipped); with no failed write the k-th data row is the row of the k-th
\* record and a finished file has one data row per record.
C7_RowsInAccumulationOrder ==
    /\ Len(calls) <= Len(allData)
    /\ Len(DataRows) = Len(WrittenIdx)
    /\ \A n \in 1..Len(DataRows) : DataRows[n] = Row(allData[WrittenIdx[n]])
    /\ (mainPc = "done" /\ file # << >>) => Len(calls) = Len(allData)
    /\ NoWriteFailed
         => /\ \A k \in 1..Len(DataRows) : DataRows[k] = Row(allData[k])
            /\ (mainPc = "done" /\ file # << >>) => Len(DataRows) = Len(allData)

\* C7 witness: a finished file of two pages with the second row skipped
C7_Witness ==
    /\ mainPc = "done" /\ Len(allData) = 2 * batchSize
    /\ calls[2] = FALSE /\ Len(DataRows) = Len(allData) - 1

\* C8: every data row has Len(csvHeaders) cells; the cell of column c is
\* formatValue of the record's value when the record has key c and the
\* empty string when it has not; nothing else is in the row.
C8_RowWidth ==
    /\ Len(DataRows) = Len(WrittenIdx)
    /\ \A n \in 1..Len(DataRows) :
         LET record == allData[WrittenIdx[n]]
             row    == DataRows[n]
         IN  /\ DOMAIN row = 1..Len(csvHeaders)
             /\ \A c \in 1..Len(csvHeaders) :
                  IF csvHeaders[c] \in DOMAIN record
                  THEN row[c] = formatValue(csvHeaders[c], record[csvHeaders[c]])
                  ELSE row[c] = ""

\* C8 witness: a row written for a record with a key outside the schema
\* and most columns missing
C8_Witness ==
    \E n \in 1..Len(DataRows) :
        /\ n <= Len(WrittenIdx)
        /\ "Shape__Area" \in DOMAIN allData[WrittenIdx[n]]
        /\ "House_Nr" \notin DOMAIN allData[WrittenIdx[n]]

\* C9: a file with any row starts with the row csvHeaders, every other row
\* is a data row, no data row is written before the header, and the row
\* loop only runs on a file that has its header.
C9_HeaderOnce ==
    /\ file # << >> => /\ file[1] = csvHeaders
                       /\ Len(file) = 1 + Len(WrittenIdx)
    /\ file = << >> => calls = << >>
    /\ (mainPc = "rows" \/ (mainPc = "done" /\ fileCreated)) => file # << >>

\* C9 witness: header and data rows in a file whose first record has the
\* single key ObjectId
C9_Witness ==
    /\ Len(file) >= 3
    /\ DOMAIN allData[1] = {"ObjectId"}

\* C10: with allData empty after the fetch phase the run goes to the
\* "no data" line and ends there: no panic, no directory, no file, no row,
\* no "saved" line.
C10_NoDataNoFile ==
    (FetchDone /\ allData = << >>)
        => /\ mainPc \in {"report", "nodata", "done"}
           /\ ~dirCreated /\ ~fileCreated /\ file = << >> /\ calls = << >>
           /\ mainPc = "done"
                => /\ stdout[Len(stdout)] = "No data was retrieved from the API."
                   /\ stdout[Len(stdout) - 1] = "Fetched 0 total records."
                   /\ Len(stdout) = 3

\* C10 witness: the run ended with one page failed and one page empty
C10_Witness ==
    /\ mainPc = "done" /\ allData = << >>
    /\ \E o \in DOMAIN pages : pages[o].err
    /\ \E o \in DOMAIN pages : ~pages[o].err

\* C11: when os.MkdirAll or os.Create fails the main goroutine panics in
\* that very step and never moves again; without a created file there is
\* never a header row, a data row, a row write or the success summary.
C11_SetupFailureAborts ==
    /\ [](~fileCreated
            => /\ file = << >> /\ calls = << >>
               /\ \A k \in 1..Len(stdout) : stdout[k] # SavedLine
               /\ mainPc \notin {"header", "rows"})
    /\ [](~dirCreated => ~fileCreated)
    /\ [][(mainPc \in {"mkdir", "create"} /\ mainPc' # mainPc
             /\ dirCreated' = dirCreated /\ fileCreated' = fileCreated)
            => mainPc' = "panic"]_vars
    /\ [][mainPc = "panic" => mainPc' = "panic" /\ file' = file /\ stdout' = stdout]_vars

\* C11 witness: os.Create failed after the directory was made
C11_Witness == mainPc = "panic" /\ dirCreated /\ ~fileCreated /\ Len(allData) > 0

\* what one call of fetchBatch returned
FetchReturned == probe.op = "fetchBatch" /\ probe.st = "ret"

\* what one call of formatValue returned
FormatReturned == probe.op = "formatValue" /\ probe.st = "ret"

\* C12: a successful fetchBatch returns at most batchSize records, and a
\* response with an empty feature list gives zero records and no error.
C12_Original ==
    FetchReturned
        => /\ probe.out.err = "nil" => Len(probe.out.records) <= batchSize
           /\ (probe.resp = Http(200, TRUE, << >>))
                => probe.out = Returns(<< >>, "nil")

\* C12 witness of the part that holds: an empty feature list
C12_EmptyPage ==
    FetchReturned /\ probe.resp = Http(200, TRUE, << >>)

DateKeys == {"Action_Filed", "Sale_Date"}

\* the input goes through the date branch of formatValue
DateInput == probe.key \in DateKeys /\ probe.value.t = "num"

\* C13: formatValue returns a string for every (key, value), the call always
\* returns; the result is "" for a nil value in every column, date columns
\* included, and for every value outside the date branch whose %v text is
\* "<nil>".
C13_AbsentValue ==
    /\ (probe.op = "formatValue" /\ probe.st = "call") => ENABLED CallFormatValue
    /\ FormatReturned
         => /\ probe.out \in STRING
            /\ probe.value = Nil => probe.out = ""
            /\ probe.value = Str("<nil>") => probe.out = ""
            /\ (~DateInput /\ Sprint(probe.value) = "<nil>") => probe.out = ""

\* C13 witness: the text "<nil>" in a date column
C13_Witness ==
    FormatReturned /\ probe.key = "Sale_Date" /\ probe.value = Str("<nil>")

\* the date text of the millisecond timestamps of ProbeValues
ExpectedDate(v) ==
    CASE v = Num(1, 0, 0)            -> ""
      [] v = Num(-1, 0, 0)           -> ""
      [] v = Num(1, 0, 5)            -> "1970/01/01 00:00:00+00"
      [] v = Num(1, 0, 999)          -> "1970/01/01 00:00:00+00"
      [] v = Num(-1, 0, 999)         -> "1970/01/01 00:00:00+00"
      [] v = Num(1, 1, 0)            -> "1970/01/01 00:00:01+00"
      [] v = Num(-1, 1, 500)         -> "1969/12/31 23:59:59+00"
      [] v = Num(1, 99, 0)           -> "1970/01/01 00:01:39+00"
      [] v = Num(1, 1250, 0)         -> "1970/01/01 00:20:50+00"
      [] v = Num(1, 951782400, 0)    -> "2000/02/29 00:00:00+00"
      [] v = Num(1, 1615766400, 0)   -> "2021/03/15 00:00:00+00"
      [] v = Num(1, 1615766400, 999) -> "2021/03/15 00:00:00+00"
      [] v = Num(1, 1615766401, 0)   -> "2021/03/15 00:00:01+00"
      [] v = Num(1, 1709251199, 500) -> "2024/02/29 23:59:59+00"

\* the %v text of the values of ProbeValues, "<nil>" collapsed to ""
ExpectedGeneric(v) ==
    CASE v = Nil                     -> ""
      [] v = Bool(TRUE)              -> "true"
      [] v = Bool(FALSE)             -> "false"
      [] v = Str("<nil>")            -> ""
      [] v.t = "str"                 -> v.v
      [] v = Num(1, 0, 0)            -> "0"
      [] v = Num(-1, 0, 0)           -> "-0"
      [] v = Num(1, 0, 5)            -> "5"
      [] v = Num(1, 0, 999)          -> "999"
      [] v = Num(-1, 0, 999)         -> "-999"
      [] v = Num(1, 1, 0)            -> "1000"
      [] v = Num(-1, 1, 500)         -> "-1500"
      [] v = Num(1, 99, 0)           -> "99000"
      [] v = Num(1, 1250, 0)         -> "1.25e+06"
      [] v = Num(1, 951782400, 0)    -> "9.517824e+11"
      [] v = Num(1, 1615766400, 0)   -> "1.6157664e+12"
      [] v = Num(1, 1615766400, 999) -> "1.615766400999e+12"
      [] v = Num(1, 1615766401, 0)   -> "1.615766401e+12"
      [] v = Num(1, 1709251199, 500) -> "1.7092511995e+12"

\* C14: in the two date columns a number 0 gives "", any other number t
\* gives the UTC date-time of the whole seconds of t / 1000 (truncated, so
\* the timestamps of one second agree); a value that is no number in a date
\* column, and every value in another column, gives the %v text.
C14_DateNormalization ==
    FormatReturned
        => /\ DateInput => probe.out = ExpectedDate(probe.value)
           /\ (DateInput /\ IsZero(probe.value)) => probe.out = ""
           /\ ~DateInput => probe.out = ExpectedGeneric(probe.value)

\* C14 witness: the last millisecond of 2021-03-15T00:00:00Z
C14_Witness ==
    /\ FormatReturned /\ probe.key = "Action_Filed"
    /\ probe.value = Num(1, 1615766400, 999)
    /\ probe.out = "2021/03/15 00:00:00+00"

\* C15: with every goroutine scheduled and every call of fetchBatch
\* returning, the feed loop gets past every full channel and sends all its
\* offsets, the channel is closed and drained, every worker leaves its loop
\* and wg.Wait returns; before that, some step is always possible.
C15_Termination ==
    /\ [](~FetchDone => ENABLED FetchNext)
    /\ <>(/\ FetchDone /\ closed /\ offsets = << >> /\ i = maxBatches
          /\ \A w \in Pool : wpc[w] = "done")

\* C15 witness: the run ended after the producer had to wait for a free
\* slot of the channel
C15_Witness ==
    /\ FetchDone /\ closed /\ offsets = << >>
    /\ \A w \in Pool : wpc[w] = "done"
    /\ BagCardinality(requested) = maxBatches
    /\ nw < maxBatches

Hung == {w \in Workers : wpc[w] = "hung"}

C17_NoLockAcrossIO ==
    /\ \A w \in Workers :
         wpc[w] \in {"idle", "recv", "fetch", "hung", "done"} => mu # w
    /\ (\A v \in Workers : wpc[v] \notin {"append", "unlock"}) => mu = 0
    /\ \A w \in Workers :
         (wpc[w] = "lock" /\ \A v \in Workers : wpc[v] \notin {"append", "unlock"})
           => ENABLED Lock(w)

\* C17 witness: a worker appends while another one is hung in fetchBatch
C17_Witness ==
    \E h, w \in Pool : wpc[h] = "hung" /\ wpc[w] = "append" /\ mu = w

\* the calls of fetchBatch that have not returned
InFlight == {w \in Workers : wpc[w] \in {"fetch", "hung"}}

\* C18: at most nw (the pool size) calls of fetchBatch are in flight, the
\* channel holds at most nw offsets, the producer is ahead of the workers
\* by what the channel holds, and with a full channel the send blocks.
C18_BoundedConcurrency ==
    /\ Cardinality(InFlight) <= nw
    /\ Cardinality({w \in Workers : wpc[w] # "idle"}) <= nw
    /\ Len(offsets) <= nw
    /\ i - BagCardinality(requested) = Len(offsets)
    /\ (mainPc = "feed" /\ Len(offsets) = nw) => ~ENABLED Feed

\* C18 witness: every worker is inside fetchBatch and the channel is full
C18_Witness == Cardinality(InFlight) = nw /\ Len(offsets) = nw

\* the offset of the page a record of the service belongs to
OffsetOf(record) == ((record.ObjectId.r - 1) \div batchSize) * batchSize

\* pages in the order of their offsets
Ascending(data) ==
    \A a, b \in 1..Len(data) : a < b => OffsetOf(data[a]) <= OffsetOf(data[b])

\* C19: what allData holds at the end of the fetch phase is fixed by the
\* pages the service returned, whatever the schedule: every record of a
\* returned page once, nothing of a failed page, nothing else; only the
\* order is left to the schedule, and a single worker takes the offsets
\* in the order they were sent, so that its allData is in page order.
C19_OrderNotContent ==
    /\ FetchDone
         => /\ Len(allData) = SumPages(DOMAIN pages)
            /\ \A o \in AllOffsets : \A r \in PageSlots(o) :
                 Occurrences(r) =
                    IF o \in NonEmptyPages /\ r \in PageRecords(o) THEN 1 ELSE 0
    /\ nw = 1 => Ascending(allData)

\* C19 witness: two workers, two non-empty pages, the page of the higher
\* offset comes first in allData
C19_Witness ==
    /\ FetchDone /\ nw >= 2 /\ Cardinality(NonEmptyPages) >= 2
    /\ ~Ascending(allData)

\* two workers, two non-empty pages, allData in page order
C19_AscendingRun ==
    /\ FetchDone /\ nw >= 2 /\ Cardinality(NonEmptyPages) >= 2
    /\ Ascending(allData)

\* seq is a concatenation of whole returned pages
RECURSIVE WholePages(_)
WholePages(seq) ==
    \/ seq = << >>
    \/ \E o \in NonEmptyPages :
         LET n == pages[o].n IN
         /\ Len(seq) >= n
         /\ SubSeq(seq, 1, n) = Page(o, n)
         /\ WholePages(SubSeq(seq, n + 1, Len(seq)))

\* C20: at every moment allData is a concatenation of whole pages: the
\* records of one returned page are next to each other, in the order the
\* service gave them, never mixed with the records of another page.
C20_WholePages == WholePages(allData)

\* C20 witness: two workers have each merged a page of batchSize records
C20_Witness ==
    /\ FetchDone
    /\ \E v, w \in Pool :
         /\ v # w /\ woffset[v] # woffset[w]
         /\ woffset[v] \in NonEmptyPages /\ pages[woffset[v]].n = batchSize
         /\ woffset[w] \in NonEmptyPages /\ pages[woffset[w]].n = batchSize
    /\ Len(allData) = 2 * batchSize /\ batchSize >= 2

====
